---- MODULE Spec2Model ----
\* Model of examples/launched-by-extension.py: main() reads the pipe address
\* from the environment, opens a VSCodeClient session in a `with` block, drives
\* a fixed sequence of UI calls and maps any Exception to "Error: ..." + exit 1.
\*
\* Python strings are sequences of one-character strings, so that f-string
\* formatting is concatenation and "contains" is a real substring test.
\* An optional value (str or None) is a record [isNone, val].
\* The VSCodeClient library and the editor host are the environment: every
\* call into them either returns a value drawn from a small set or raises an
\* Exception whose str() is drawn from ErrDescs.  __exit__ returns a falsy
\* value (it does not swallow the exception in flight).
EXTENDS Naturals, Integers, Sequences, FiniteSets, TLC

\* ---------------------------------------------------------------- bounds
MaxNameLen == 2
MaxFolders == 2

\* ------------------------------------------------------- string literals
\* line 21: "Error: VSCODE_SOCKPUPPET_PIPE environment variable not set"
ERR_NOT_SET ==
    << "E", "r", "r", "o", "r", ":", " ", "V", "S", "C", "O", "D", "E", "_",
       "S", "O", "C", "K", "P", "U", "P", "P", "E", "T", "_", "P", "I", "P",
       "E", " ", "e", "n", "v", "i", "r", "o", "n", "m", "e", "n", "t", " ",
       "v", "a", "r", "i", "a", "b", "l", "e", " ", "n", "o", "t", " ", "s",
       "e", "t" >>

\* line 22: "This script should be launched by an extension using Sockpuppet API"
ERR_LAUNCH_HINT ==
    << "T", "h", "i", "s", " ", "s", "c", "r", "i", "p", "t", " ", "s", "h",
       "o", "u", "l", "d", " ", "b", "e", " ", "l", "a", "u", "n", "c", "h",
       "e", "d", " ", "b", "y", " ", "a", "n", " ", "e", "x", "t", "e", "n",
       "s", "i", "o", "n", " ", "u", "s", "i", "n", "g", " ", "S", "o", "c",
       "k", "p", "u", "p", "p", "e", "t", " ", "A", "P", "I" >>

\* line 25: "Connecting to VS Code via: "
CONNECTING_PREFIX ==
    << "C", "o", "n", "n", "e", "c", "t", "i", "n", "g", " ", "t", "o", " ",
       "V", "S", " ", "C", "o", "d", "e", " ", "v", "i", "a", ":", " " >>

\* line 32: "Hello from Python! I was launched by another extension."
GREETING ==
    << "H", "e", "l", "l", "o", " ", "f", "r", "o", "m", " ", "P", "y", "t",
       "h", "o", "n", "!", " ", "I", " ", "w", "a", "s", " ", "l", "a", "u",
       "n", "c", "h", "e", "d", " ", "b", "y", " ", "a", "n", "o", "t", "h",
       "e", "r", " ", "e", "x", "t", "e", "n", "s", "i", "o", "n", "." >>

\* line 37: "Workspace folders: "
FOLDERS_PREFIX ==
    << "W", "o", "r", "k", "s", "p", "a", "c", "e", " ", "f", "o", "l", "d",
       "e", "r", "s", ":", " " >>

\* line 41: "What's your name?"
INPUT_PROMPT ==
    << "W", "h", "a", "t", "'", "s", " ", "y", "o", "u", "r", " ", "n", "a",
       "m", "e", "?" >>

\* line 41: "Enter your name"
INPUT_PLACEHOLDER ==
    << "E", "n", "t", "e", "r", " ", "y", "o", "u", "r", " ", "n", "a", "m",
       "e" >>

\* line 47: "Python Automation"
CHANNEL_NAME ==
    << "P", "y", "t", "h", "o", "n", " ", "A", "u", "t", "o", "m", "a", "t",
       "i", "o", "n" >>

\* line 48: "Hello, "
HELLO_PREFIX ==
    << "H", "e", "l", "l", "o", ",", " " >>

\* line 48: "! This is Python speaking.\n"
HELLO_SUFFIX ==
    << "!", " ", "T", "h", "i", "s", " ", "i", "s", " ", "P", "y", "t", "h",
       "o", "n", " ", "s", "p", "e", "a", "k", "i", "n", "g", ".", "\n" >>

\* line 54: "Option A"
OPTION_A ==
    << "O", "p", "t", "i", "o", "n", " ", "A" >>

\* line 54: "Option B"
OPTION_B ==
    << "O", "p", "t", "i", "o", "n", " ", "B" >>

\* line 54: "Option C"
OPTION_C ==
    << "O", "p", "t", "i", "o", "n", " ", "C" >>

\* line 55: "Hi "
HI_PREFIX ==
    << "H", "i", " " >>

\* line 55: ", choose an option"
HI_SUFFIX ==
    << ",", " ", "c", "h", "o", "o", "s", "e", " ", "a", "n", " ", "o", "p",
       "t", "i", "o", "n" >>

\* line 59: "You selected: "
SELECTED_PREFIX ==
    << "Y", "o", "u", " ", "s", "e", "l", "e", "c", "t", "e", "d", ":", " " >>

\* line 62: "Python automation completed!"
STATUS_TEXT ==
    << "P", "y", "t", "h", "o", "n", " ", "a", "u", "t", "o", "m", "a", "t",
       "i", "o", "n", " ", "c", "o", "m", "p", "l", "e", "t", "e", "d", "!" >>

\* line 64: "Automation completed successfully"
DONE_TEXT ==
    << "A", "u", "t", "o", "m", "a", "t", "i", "o", "n", " ", "c", "o", "m",
       "p", "l", "e", "t", "e", "d", " ", "s", "u", "c", "c", "e", "s", "s",
       "f", "u", "l", "l", "y" >>

\* line 67: "Error: "
ERROR_PREFIX ==
    << "E", "r", "r", "o", "r", ":", " " >>

\* line 62: display duration in milliseconds
STATUS_TIMEOUT == 5000

\* ---------------------------------------------------------------- values
None == [isNone |-> TRUE, val |-> << >>]
Str(s) == [isNone |-> FALSE, val |-> s]

BoundedSeq(S, n) == UNION {[1..k -> S] : k \in 0..n}

\* characters a user may type into the input box
NameChars == {"A", "d"}
\* what show_input_box can hand back: None (cancel) or any string, "" included
NameResults == {None} \cup {Str(s) : s \in BoundedSeq(NameChars, MaxNameLen)}
\* the items offered by show_quick_pick (line 54)
QuickPickItems == << OPTION_A, OPTION_B, OPTION_C >>
\* what show_quick_pick can hand back: None, one of the items, or ""
ChoiceResults ==
    {None, Str(<< >>)} \cup {Str(QuickPickItems[i]) : i \in 1..Len(QuickPickItems)}
\* folder descriptors the host can report
FolderNames == {<<"/", "a">>, <<"/", "b">>}
FolderResults == BoundedSeq(FolderNames, MaxFolders)
\* os.environ.get(...): None when unset, else the string (possibly empty)
EnvValues == {None, Str(<< >>), Str(<<"p">>), Str(<<"q", "1">>)}
\* str(e) of an Exception raised by the library
ErrDescs == {<<"b", "o", "o", "m">>, <<"E", "O", "F">>}

\* ------------------------------------------------------- pure functions
\* variant: the test `x is not None` in place of truthiness
TruthyIsNotNone(v) == ~v.isNone

\* Python truthiness of an Optional[str]: `not x` is true for None and ""
Truthy(v) == (~v.isNone) /\ Len(v.val) > 0

\* repr() of a str element inside a list
ReprStr(s) == <<"'">> \o s \o <<"'">>

RECURSIVE ReprItems(_)
ReprItems(fs) ==
    IF Len(fs) = 0 THEN << >>
    ELSE IF Len(fs) = 1 THEN ReprStr(fs[1])
    ELSE ReprStr(fs[1]) \o <<",", " ">> \o ReprItems(Tail(fs))

\* str() of a list, as interpolated by the f-string of line 37
ReprList(fs) == <<"[">> \o ReprItems(fs) \o <<"]">>

ConnectingLine(p) == CONNECTING_PREFIX \o p
FoldersLine(fs) == FOLDERS_PREFIX \o ReprList(fs)
HelloTextNoName(n) == HELLO_PREFIX \o HELLO_SUFFIX
HelloText(n) == HELLO_PREFIX \o n \o HELLO_SUFFIX
PickPlaceholder(n) == HI_PREFIX \o n \o HI_SUFFIX
SelectedText(c) == SELECTED_PREFIX \o c
ErrorLineNoDesc(d) == ERROR_PREFIX
ErrorLine(d) == ERROR_PREFIX \o d

\* ------------------------------------------------------------ the state
VARIABLES
    environ,      \* value of VSCODE_SOCKPUPPET_PIPE in the process environment
    pc,           \* the statement main() executes next
    pipe_path,    \* local of main (None while unbound)
    folders,      \* local of main
    name,         \* local of main
    choice,       \* local of main
    constructed,  \* number of VSCodeClient(...) constructor invocations
    entered,      \* number of successful __enter__ (session acquisitions)
    exited,       \* number of __exit__ invocations (session releases)
    calls,        \* UI calls received by the host, in order
    raised,       \* exceptions raised so far: [at, desc]
    exc,          \* the exception propagating out of the try body, or None
    stdout,       \* lines printed
    exitCode      \* process exit status, Running while main() is executing

vars == << environ, pc, pipe_path, folders, name, choice, constructed, entered,
           exited, calls, raised, exc, stdout, exitCode >>

Running == -1

Call(m, a) == [method |-> m, args |-> a]

\* variant: the body's exception bypasses __exit__ (no scoped release)
BodyRaiseSkipsExit == "except"

\* where control goes when a statement of the with-body raises: the with
\* statement invokes __exit__ with the exception in flight
BodyRaiseTarget == "__exit__"

\* variant: a failed acquisition still runs the release path
AcquireRaiseViaExit == "__exit__"

\* where control goes when the constructor or __enter__ raises: __exit__ is
\* not invoked, the exception reaches the except clause directly
AcquireRaiseTarget == "except"

\* variant: the status-bar call sits inside the `if name:` block
AfterInputBoxSkipsStatus(n) ==
    IF Truthy(n) THEN "create_output_channel" ELSE "print_done"

\* variant: the output-channel call is missing from the `if name:` block
AfterInputBoxSkipsChannel(n) ==
    IF Truthy(n) THEN "show_quick_pick" ELSE "set_status_bar_message"

\* line 44: `if name:` guards the output channel and the quick pick
AfterInputBox(n) ==
    IF Truthy(n) THEN "create_output_channel" ELSE "set_status_bar_message"

\* variant: the selection notification is not guarded
AfterQuickPickUngated(c) == "show_selection"

\* variant: `if choice is not None:`
AfterQuickPickIsNotNone(c) ==
    IF ~c.isNone THEN "show_selection" ELSE "set_status_bar_message"

\* line 58: `if choice:` guards the selection notification
AfterQuickPick(c) ==
    IF Truthy(c) THEN "show_selection" ELSE "set_status_bar_message"

\* a statement of the with-body raises Exception(d)
RaiseInBody(at, d) ==
    /\ raised' = Append(raised, [at |-> at, desc |-> d])
    /\ exc' = Str(d)
    /\ pc' = BodyRaiseTarget

Init ==
    /\ environ \in EnvValues
    /\ pc = "start"
    /\ pipe_path = None
    /\ folders = << >>
    /\ name = None
    /\ choice = None
    /\ constructed = 0
    /\ entered = 0
    /\ exited = 0
    /\ calls = << >>
    /\ raised = << >>
    /\ exc = None
    /\ stdout = << >>
    /\ exitCode = Running

\* variant: only an unset variable counts as missing
AddressMissingIsNone(p) == p.isNone

\* line 20: `if not pipe_path:`
AddressMissing(p) == ~Truthy(p)

\* lines 18-25
ResolveAddress ==
    /\ pc = "start"
    /\ pipe_path' = environ
    /\ IF AddressMissing(environ)
       THEN /\ stdout' = stdout \o << ERR_NOT_SET, ERR_LAUNCH_HINT >>
            /\ exitCode' = 1
            /\ pc' = "done"
       ELSE /\ stdout' = Append(stdout, ConnectingLine(environ.val))
            /\ exitCode' = exitCode
            /\ pc' = "construct"
    /\ UNCHANGED << environ, folders, name, choice, constructed, entered,
                    exited, calls, raised, exc >>

\* line 29: VSCodeClient(pipe_path=pipe_path)
Construct ==
    /\ pc = "construct"
    /\ constructed' = constructed + 1
    /\ \/ /\ pc' = "__enter__"
          /\ UNCHANGED << raised, exc >>
       \/ \E d \in ErrDescs :
            /\ raised' = Append(raised, [at |-> "construct", desc |-> d])
            /\ exc' = Str(d)
            /\ pc' = AcquireRaiseTarget
    /\ UNCHANGED << environ, pipe_path, folders, name, choice, entered, exited,
                    calls, stdout, exitCode >>

\* line 29: `with ... as vscode` calls __enter__
Enter ==
    /\ pc = "__enter__"
    /\ \/ /\ entered' = entered + 1
          /\ pc' = "show_information_message"
          /\ UNCHANGED << raised, exc >>
       \/ \E d \in ErrDescs :
            /\ raised' = Append(raised, [at |-> "__enter__", desc |-> d])
            /\ exc' = Str(d)
            /\ pc' = AcquireRaiseTarget
            /\ UNCHANGED entered
    /\ UNCHANGED << environ, pipe_path, folders, name, choice, constructed,
                    exited, calls, stdout, exitCode >>

\* lines 31-33
ShowGreeting ==
    /\ pc = "show_information_message"
    /\ calls' = Append(calls, Call("show_information_message", << GREETING >>))
    /\ \/ /\ pc' = "get_workspace_folders"
          /\ UNCHANGED << raised, exc >>
       \/ \E d \in ErrDescs : RaiseInBody("show_information_message", d)
    /\ UNCHANGED << environ, pipe_path, folders, name, choice, constructed,
                    entered, exited, stdout, exitCode >>

\* lines 36-37
GetWorkspaceFolders ==
    /\ pc = "get_workspace_folders"
    /\ calls' = Append(calls, Call("get_workspace_folders", << >>))
    /\ \/ \E fs \in FolderResults :
            /\ folders' = fs
            /\ stdout' = Append(stdout, FoldersLine(fs))
            /\ pc' = "show_input_box"
            /\ UNCHANGED << raised, exc >>
       \/ /\ \E d \in ErrDescs : RaiseInBody("get_workspace_folders", d)
          /\ UNCHANGED << folders, stdout >>
    /\ UNCHANGED << environ, pipe_path, name, choice, constructed, entered,
                    exited, exitCode >>

\* lines 40-44
ShowInputBox ==
    /\ pc = "show_input_box"
    /\ calls' = Append(calls, Call("show_input_box",
                    << [prompt |-> INPUT_PROMPT,
                        placeholder |-> INPUT_PLACEHOLDER] >>))
    /\ \/ \E n \in NameResults :
            /\ name' = n
            /\ pc' = AfterInputBox(n)
            /\ UNCHANGED << raised, exc >>
       \/ /\ \E d \in ErrDescs : RaiseInBody("show_input_box", d)
          /\ UNCHANGED name
    /\ UNCHANGED << environ, pipe_path, folders, choice, constructed, entered,
                    exited, stdout, exitCode >>

\* lines 46-50
CreateOutputChannel ==
    /\ pc = "create_output_channel"
    /\ calls' = Append(calls, Call("create_output_channel",
                    << [name |-> CHANNEL_NAME,
                        text |-> HelloText(name.val),
                        show |-> TRUE] >>))
    /\ \/ /\ pc' = "show_quick_pick"
          /\ UNCHANGED << raised, exc >>
       \/ \E d \in ErrDescs : RaiseInBody("create_output_channel", d)
    /\ UNCHANGED << environ, pipe_path, folders, name, choice, constructed,
                    entered, exited, stdout, exitCode >>

\* lines 53-58
ShowQuickPick ==
    /\ pc = "show_quick_pick"
    /\ calls' = Append(calls, Call("show_quick_pick",
                    << QuickPickItems,
                       [placeholder |-> PickPlaceholder(name.val)] >>))
    /\ \/ \E c \in ChoiceResults :
            /\ choice' = c
            /\ pc' = AfterQuickPick(c)
            /\ UNCHANGED << raised, exc >>
       \/ /\ \E d \in ErrDescs : RaiseInBody("show_quick_pick", d)
          /\ UNCHANGED choice
    /\ UNCHANGED << environ, pipe_path, folders, name, constructed, entered,
                    exited, stdout, exitCode >>

\* line 59
ShowSelection ==
    /\ pc = "show_selection"
    /\ calls' = Append(calls, Call("show_information_message",
                    << SelectedText(choice.val) >>))
    /\ \/ /\ pc' = "set_status_bar_message"
          /\ UNCHANGED << raised, exc >>
       \/ \E d \in ErrDescs : RaiseInBody("show_selection", d)
    /\ UNCHANGED << environ, pipe_path, folders, name, choice, constructed,
                    entered, exited, stdout, exitCode >>

\* line 62
SetStatusBarMessage ==
    /\ pc = "set_status_bar_message"
    /\ calls' = Append(calls, Call("set_status_bar_message",
                    << STATUS_TEXT, STATUS_TIMEOUT >>))
    /\ \/ /\ pc' = "print_done"
          /\ UNCHANGED << raised, exc >>
       \/ \E d \in ErrDescs : RaiseInBody("set_status_bar_message", d)
    /\ UNCHANGED << environ, pipe_path, folders, name, choice, constructed,
                    entered, exited, stdout, exitCode >>

\* line 64: printed inside the with block, before __exit__ runs
PrintDone ==
    /\ pc = "print_done"
    /\ stdout' = Append(stdout, DONE_TEXT)
    /\ pc' = "__exit__"
    /\ UNCHANGED << environ, pipe_path, folders, name, choice, constructed,
                    entered, exited, calls, raised, exc, exitCode >>

\* leaving the with block (line 29 scope): __exit__ is invoked once, with or
\* without an exception in flight.  If it returns, a pending exception goes
\* on to the except clause, otherwise main() returns and the process exits 0.
\* If __exit__ itself raises, that exception replaces the pending one.
Release ==
    /\ pc = "__exit__"
    /\ exited' = exited + 1
    /\ \/ /\ UNCHANGED << raised, exc >>
          /\ IF exc.isNone
             THEN pc' = "done" /\ exitCode' = 0
             ELSE pc' = "except" /\ exitCode' = exitCode
       \/ \E d \in ErrDescs :
            /\ raised' = Append(raised, [at |-> "__exit__", desc |-> d])
            /\ exc' = Str(d)
            /\ pc' = "except"
            /\ exitCode' = exitCode
    /\ UNCHANGED << environ, pipe_path, folders, name, choice, constructed,
                    entered, calls, stdout >>

\* lines 66-68
Except ==
    /\ pc = "except"
    /\ stdout' = Append(stdout, ErrorLine(exc.val))
    /\ exitCode' = 1
    /\ pc' = "done"
    /\ UNCHANGED << environ, pipe_path, folders, name, choice, constructed,
                    entered, exited, calls, raised, exc >>

Next ==
    \/ ResolveAddress
    \/ Construct
    \/ Enter
    \/ ShowGreeting
    \/ GetWorkspaceFolders
    \/ ShowInputBox
    \/ CreateOutputChannel
    \/ ShowQuickPick
    \/ ShowSelection
    \/ SetStatusBarMessage
    \/ PrintDone
    \/ Release
    \/ Except

Spec == Init /\ [][Next]_vars

\* ------------------------------------------------------------ properties
Methods(cs) == [i \in 1..Len(cs) |-> cs[i].method]

IsPrefix(p, q) == Len(p) <= Len(q) /\ SubSeq(q, 1, Len(p)) = p

Contains(hay, needle) ==
    \E i \in 0..(Len(hay) - Len(needle)) :
        SubSeq(hay, i + 1, i + Len(needle)) = needle

Printed(line) == \E i \in 1..Len(stdout) : stdout[i] = line

LastLine == stdout[Len(stdout)]

UIPlaces ==
    {"show_information_message", "get_workspace_folders", "show_input_box",
     "create_output_channel", "show_quick_pick", "show_selection",
     "set_status_bar_message"}

\* the three complete call sequences: name absent; name given, no selection;
\* name and selection given
SeqNoName ==
    << "show_information_message", "get_workspace_folders", "show_input_box",
       "set_status_bar_message" >>
SeqNoChoice ==
    << "show_information_message", "get_workspace_folders", "show_input_box",
       "create_output_channel", "show_quick_pick", "set_status_bar_message" >>
SeqFull ==
    << "show_information_message", "get_workspace_folders", "show_input_box",
       "create_output_channel", "show_quick_pick", "show_information_message",
       "set_status_bar_message" >>

AcquireFailed == raised # << >> /\ raised[1].at \in {"construct", "__enter__"}
UICallFailed == raised # << >> /\ raised[1].at \in UIPlaces
\* the run finished, the session was acquired and nothing raised
CleanRun == pc = "done" /\ entered = 1 /\ raised = << >>

\* C1: with VSCODE_SOCKPUPPET_PIPE unset or empty, main() goes from its first
\* statement straight to exit code 1 with the two-line diagnostic; the client
\* is never constructed or entered and no UI call is issued.
C1_MissingAddress ==
    (environ.isNone \/ environ.val = << >>) =>
        /\ pc \in {"start", "done"}
        /\ constructed = 0
        /\ entered = 0
        /\ exited = 0
        /\ calls = << >>
        /\ pc = "done" =>
            /\ exitCode = 1
            /\ stdout = << ERR_NOT_SET, ERR_LAUNCH_HINT >>

C1_Witness ==
    /\ ~environ.isNone
    /\ environ.val = << >>
    /\ pc = "done"
    /\ exitCode = 1

\* C2 (as stated): if the constructor or __enter__ raises, no UI call occurs,
\* the release path (__exit__) is still invoked, the error is printed and the
\* exit code is 1.
C2_Original ==
    (pc = "done" /\ AcquireFailed) =>
        /\ calls = << >>
        /\ exited >= 1
        /\ LastLine = ErrorLine(raised[1].desc)
        /\ exitCode = 1

\* C2 (amended): if the constructor or __enter__ raises, no session is
\* acquired, no UI call occurs, __exit__ is NOT invoked, the error is printed
\* as "Error: <description>" and the exit code is 1.
C2_AcquireFailure ==
    AcquireFailed =>
        /\ calls = << >>
        /\ entered = 0
        /\ exited = 0
        /\ pc \in {"except", "done"}
        /\ pc = "done" =>
            /\ LastLine = ERROR_PREFIX \o raised[1].desc
            /\ exitCode = 1

C2_Witness ==
    /\ pc = "done"
    /\ AcquireFailed
    /\ raised[1].at = "__enter__"
    /\ constructed = 1
    /\ exitCode = 1

\* C3: an acquired session is released exactly once on every exit path: the
\* release count never exceeds the acquisition count, and no run ends with a
\* session acquired and not released, after normal completion or after an
\* error in any UI call.
C3_ReleasedExactlyOnce ==
    /\ exited <= entered
    /\ entered <= 1
    /\ (pc \in {"except", "done"} /\ entered = 1) => exited = 1

C3_Witness ==
    /\ pc = "done"
    /\ entered = 1
    /\ exited = 1
    /\ UICallFailed
    /\ raised[1].at = "show_quick_pick"

\* C4: once a UI call has raised, no further UI call is issued and the
\* completion message is never printed; the run ends with the session
\* released, "Error: <description>" as the last line (the description of the
\* UI call's error when nothing else raised) and exit code 1.
C4_State ==
    UICallFailed =>
        /\ pc \in {"__exit__", "except", "done"}
        /\ ~Printed(DONE_TEXT)
        /\ pc = "done" =>
            /\ exited = 1
            /\ exitCode = 1
            /\ IsPrefix(ERROR_PREFIX, LastLine)
            /\ Len(raised) = 1 => LastLine = ERROR_PREFIX \o raised[1].desc

C4_Step == UICallFailed => calls' = calls

C4_CallFailure == [](C4_State) /\ [][C4_Step]_vars

C4_Witness ==
    /\ pc = "done"
    /\ UICallFailed
    /\ raised[1].at = "show_selection"
    /\ Len(raised) = 1
    /\ Len(calls) = 6
    /\ exitCode = 1

\* C5: when the input box returns None and nothing raises, the calls are
\* exactly greeting, folders, input box, status bar (no output channel, no
\* quick pick, no second notification) and the exit code is 0.
C5_CancelledInput ==
    (CleanRun /\ name.isNone) =>
        /\ Methods(calls) = SeqNoName
        /\ exitCode = 0

C5_Witness ==
    /\ CleanRun
    /\ name.isNone
    /\ calls[Len(calls)].method = "set_status_bar_message"
    /\ exitCode = 0

\* C6: when the input box returns a name, the quick pick returns None and
\* nothing raises, the output channel is created, the selection notification
\* is not shown, the status bar is still set and the exit code is 0.
C6_CancelledSelection ==
    (CleanRun /\ ~name.isNone /\ name.val # << >> /\ choice.isNone) =>
        /\ Methods(calls) = SeqNoChoice
        /\ exitCode = 0

C6_Witness ==
    /\ CleanRun
    /\ name = Str(<<"A", "d">>)
    /\ choice.isNone
    /\ Len(calls) = 6
    /\ exitCode = 0

\* C7: the UI calls are issued one per step, only while the session is
\* acquired and not yet released, in the fixed order (so each method at most
\* once, show_information_message at most twice); the output channel and the
\* quick pick only after the input box returned a non-empty name, the
\* selection notification only after the quick pick also returned a non-empty
\* selection.
C7_State ==
    /\ \/ IsPrefix(Methods(calls), SeqNoName)
       \/ IsPrefix(Methods(calls), SeqNoChoice)
       \/ IsPrefix(Methods(calls), SeqFull)
    /\ calls # << >> => entered = 1
    /\ Len(calls) >= 4 /\ calls[4].method = "create_output_channel" =>
            ~name.isNone /\ name.val # << >>
    /\ Len(calls) >= 6 /\ calls[6].method = "show_information_message" =>
            /\ ~name.isNone /\ name.val # << >>
            /\ ~choice.isNone /\ choice.val # << >>

C7_Step ==
    calls' # calls =>
        /\ Len(calls') = Len(calls) + 1
        /\ SubSeq(calls', 1, Len(calls)) = calls
        /\ entered = 1 /\ entered' = 1
        /\ exited = 0 /\ exited' = 0

C7_CallOrder == [](C7_State) /\ [][C7_Step]_vars

C7_Witness ==
    /\ pc = "done"
    /\ exited = 1
    /\ Methods(calls) = SeqFull

\* C8: in a clean run with folder list F, name N and selection S: a line
\* "Workspace folders: ..." naming every folder of F is printed, the output
\* channel is requested with text containing "Hello, N!", a notification
\* containing S is requested, the status bar message is requested with
\* duration 5000, the session is released and the exit code is 0.
C8_FullRun ==
    (CleanRun /\ ~name.isNone /\ name.val # << >>
              /\ ~choice.isNone /\ choice.val # << >>) =>
        /\ \E i \in 1..Len(stdout) :
              /\ IsPrefix(FOLDERS_PREFIX, stdout[i])
              /\ \A j \in 1..Len(folders) : Contains(stdout[i], folders[j])
        /\ \E i \in 1..Len(calls) :
              /\ calls[i].method = "create_output_channel"
              /\ Contains(calls[i].args[1].text,
                          <<"H", "e", "l", "l", "o", ",", " ">>
                              \o name.val \o <<"!">>)
        /\ \E i \in 1..Len(calls) :
              /\ calls[i].method = "show_information_message"
              /\ Contains(calls[i].args[1], choice.val)
        /\ \E i \in 1..Len(calls) :
              /\ calls[i].method = "set_status_bar_message"
              /\ calls[i].args[2] = 5000
        /\ exited = 1
        /\ exitCode = 0

C8_Witness ==
    /\ CleanRun
    /\ folders = << <<"/", "a">> >>
    /\ name = Str(<<"A", "d">>)
    /\ choice = Str(OPTION_B)
    /\ exitCode = 0

\* C9: whenever "Automation completed successfully" has been printed, the run
\* ends with exit code 0 and no "Error: ..." line follows it.
C9_CompletionMeansSuccess ==
    (pc = "done" /\ Printed(DONE_TEXT)) =>
        /\ exitCode = 0
        /\ LastLine = DONE_TEXT

\* C10: the gates test truthiness: in a clean run an input-box result of ""
\* gives the same calls as None (greeting, folders, input box, status bar);
\* with a non-empty name, a quick-pick result of "" gives the same calls as
\* None (no selection notification); every non-empty result runs the gated
\* steps; the exit code is 0 throughout.
C10_TruthinessGates ==
    CleanRun =>
        /\ exitCode = 0
        /\ name.val = << >> => Methods(calls) = SeqNoName
        /\ (name.val # << >> /\ choice.val = << >>) =>
                Methods(calls) = SeqNoChoice
        /\ (name.val # << >> /\ choice.val # << >>) =>
                Methods(calls) = SeqFull

C10_Witness ==
    /\ CleanRun
    /\ name = Str(<< >>)
    /\ Methods(calls) = SeqNoName
    /\ exitCode = 0

====
